---- MODULE Spec2Model ----
(***************************************************************************)
(* Model of the query orchestration core of the CrossFit / PubMed agent:   *)
(*   - PubMedCrossFitAgent.query and the LangGraph workflow it runs        *)
(*     (src/api/features/agents/pub_med_agent.py)                          *)
(*   - the source selection block of /api/rag-query and /api/rag-stream    *)
(*     (src/api/app.py)                                                    *)
(* Strings are modelled as sequences of tokens ("" is << >>), scores and   *)
(* confidences as integer hundredths (0.7 is 70).                          *)
(***************************************************************************)
EXTENDS Integers, Sequences, FiniteSets, TLC

\* ------------------------------------------------------------------ bounds
MaxM == 1               \* largest explicit max_attempts argument (None gives 3)
MaxChunks == 2          \* most chunks the chat model streams for one answer

\* -------------------------------------------------------- program constants
DefaultMaxAttempts == 3
ConfidenceThreshold == 70
DefaultConfidence == 30
TopN == 3
TargetSources == 3
TopK == 5
RelevanceThreshold == 50
MinRelevanceScore == 25

VARIABLES
    cache,          \* PubMedCrossFitAgent._cache : cache key -> cache data
    active,         \* the invocations that are in use
    inputs,         \* what callers pass to query() and collaborators may answer
    pc,             \* per invocation: the graph node about to run
    st,             \* per invocation: the AgentState threaded through the graph
    hist,           \* per invocation: history of the run (calls made, route taken)
    result,         \* per invocation: the dict query() returned
    search_results, \* rag endpoints: what asimilarity_search returned
    dpc,            \* rag endpoints: "build", "rag_query", "rag_stream"
    outcome,        \* rag endpoints: "", "no_results", "low_relevance", "selected"
    sources,        \* rag endpoints: the sources put in the response
    gen,            \* streaming endpoints: where the response generator stands
    stream,         \* streaming endpoints: the messages sent so far
    ev              \* HelpfulEvaluatorAgent: the state of its run

agentVars == <<cache, active, inputs, pc, st, hist, result>>
divVars == <<search_results, dpc, outcome, sources, gen, stream>>
vars ==
    <<cache, active, inputs, pc, st, hist, result, search_results, dpc, outcome,
      sources, gen, stream, ev>>

Runs == {1, 2}

\* ------------------------------------------------------------ small helpers
Max(a, b) == IF a >= b THEN a ELSE b
Min(a, b) == IF a <= b THEN a ELSE b
Take(s, n) == SubSeq(s, 1, Min(n, Len(s)))
Range(s) == {s[i] : i \in 1..Len(s)}

NumStr(n) ==
    CASE n = 0 -> "0" [] n = 1 -> "1" [] n = 2 -> "2" [] n = 3 -> "3"
      [] n = 4 -> "4" [] n = 5 -> "5" [] n = 6 -> "6" [] OTHER -> "many"

\* ------------------------------------------------- collaborators' behaviour
\* user queries, and what the language model answers to each prompt
Queries == {<<"q1">>, <<"q2">>}
RefineReplies == {<<" ">>, <<"q1">>, <<" ", "r1">>}
Answers == {<< >>, <<"a1">>}
IntentReplies == {<<" ", "Education", "\n">>, <<"banana">>}
ConfidenceReplies == {<<"-0.1">>, <<" ", "0.7">>, <<"1.2">>, <<"high">>, <<"nan">>}
HelpfulnessReplies ==
    {<<"Y">>, <<"N">>, << >>, <<"y", "e", "s">>, <<" ", "n", "o">>,
     <<"N", " ", "s", "o", "r", "r", "y">>}
LocalResults == {<< >>, <<"L1">>}
PubmedResults == {<< >>, <<"P1">>}
MaxAttemptsArgs == {<< >>} \cup {<<m>> : m \in 0..MaxM}

\* str.strip(): drop leading and trailing whitespace tokens
IsSpace(c) == c \in {" ", "\n"}
RECURSIVE LStrip(_)
LStrip(s) == IF s # << >> /\ IsSpace(Head(s)) THEN LStrip(Tail(s)) ELSE s
RECURSIVE RStrip(_)
RStrip(s) ==
    IF s # << >> /\ IsSpace(s[Len(s)]) THEN RStrip(SubSeq(s, 1, Len(s) - 1)) ELSE s
Strip(s) == RStrip(LStrip(s))

\* str.lower() / str.upper() on the tokens the replies use
LowerTok(c) ==
    CASE c = "Education" -> "education" [] c = "Y" -> "y" [] c = "N" -> "n"
      [] OTHER -> c
UpperTok(c) ==
    CASE c = "y" -> "Y" [] c = "e" -> "E" [] c = "s" -> "S" [] c = "n" -> "N"
      [] c = "o" -> "O" [] c = "r" -> "R" [] OTHER -> c
Lower(s) == [i \in 1..Len(s) |-> LowerTok(s[i])]
Upper(s) == [i \in 1..Len(s) |-> UpperTok(s[i])]

\* float(text): the number in hundredths, not-a-number, or "ValueError"
ParseFloat(s) ==
    CASE s = <<"-0.1">> -> [ok |-> TRUE, nan |-> FALSE, v |-> -10]
      [] s = <<"0.69">> -> [ok |-> TRUE, nan |-> FALSE, v |-> 69]
      [] s = <<"0.7">> -> [ok |-> TRUE, nan |-> FALSE, v |-> 70]
      [] s = <<"1.2">> -> [ok |-> TRUE, nan |-> FALSE, v |-> 120]
      [] s = <<"nan">> -> [ok |-> TRUE, nan |-> TRUE, v |-> 0]
      [] OTHER -> [ok |-> FALSE, nan |-> FALSE, v |-> 0]

\* hashlib.sha256(query.encode()).hexdigest(): injective on the texts used
Sha256(q) == <<"sha256">> \o q

\* ---------------------------------------------------------------- the agent
\* mutant: the attempt counter starts at 0
InitialState_ZeroBased(user_query, max_attempts) ==
    [ query |-> user_query, context |-> << >>, pubmed_results |-> << >>,
      local_rag_results |-> << >>, next_action |-> << >>, messages |-> << >>,
      response |-> << >>, helpfulness_score |-> "", attempt_count |-> 0,
      max_attempts |-> max_attempts, local_confidence |-> 0,
      cache_key |-> << >>, cache_hit |-> FALSE ]

\* query(), lines 821-840: the initial AgentState (fields the graph reads)
InitialState(user_query, max_attempts) ==
    [ query |-> user_query,
      context |-> << >>,
      pubmed_results |-> << >>,
      local_rag_results |-> << >>,
      next_action |-> << >>,
      messages |-> << >>,
      response |-> << >>,
      helpfulness_score |-> "",
      attempt_count |-> 1,
      max_attempts |-> max_attempts,
      local_confidence |-> 0,
      cache_key |-> << >>,
      cache_hit |-> FALSE ]

\* query(), lines 817-818: max_attempts argument, None is << >>
EffectiveMaxAttempts(arg) == IF arg = << >> THEN DefaultMaxAttempts ELSE arg[1]

\* _check_cache
CheckCacheNode(s, c) ==
    LET cache_key == Sha256(s.query)
        s1 == [s EXCEPT !.cache_key = cache_key]
    IN  IF cache_key \in DOMAIN c
        THEN [s1 EXCEPT !.cache_hit = TRUE,
                        !.pubmed_results = c[cache_key].pubmed_results,
                        !.context = c[cache_key].context,
                        !.response = c[cache_key].response]
        ELSE [s1 EXCEPT !.cache_hit = FALSE]

\* mutant: the cache decision ignores the hit
RouteCacheDecision_AlwaysMiss(s) == "cache_miss"

\* _route_cache_decision
RouteCacheDecision(s) == IF s.cache_hit THEN "cache_hit" ELSE "cache_miss"

\* _cache_response: the entry written (its timestamp is left out: nothing
\* reads it), and the cache after the write
CacheData(s) ==
    [ pubmed_results |-> s.pubmed_results,
      context |-> s.context,
      response |-> s.response ]

\* mutant: the key is computed again from the working query
CacheKeyForWrite_Recomputed(s) == Sha256(s.query)

\* _cache_response, line 468: the key check_cache stored in the state
CacheKeyForWrite(s) == s.cache_key

CachePut(c, key, data) ==
    [k \in DOMAIN c \cup {key} |-> IF k = key THEN data ELSE c[k]]

\* _analyze_query
AnalyzeQueryNode(s, reply) == [s EXCEPT !.next_action = Lower(Strip(reply))]

\* _search_pubmed_node / _search_local_node
SearchPubmedNode(s, results) == [s EXCEPT !.pubmed_results = results]
SearchLocalNode(s, results) == [s EXCEPT !.local_rag_results = results]

\* mutant: a reply that does not parse counts as full confidence
ConfidenceScore_DefaultHigh(reply) ==
    LET parsed == ParseFloat(Strip(reply))
    IN  IF parsed.ok /\ ~parsed.nan THEN Max(0, Min(100, parsed.v)) ELSE 100

\* _evaluate_confidence: parse, clamp to [0, 1], 0.3 on ValueError.
\* min(1.0, x) is x only when x < 1.0, which not-a-number never is
ConfidenceScore(reply) ==
    LET parsed == ParseFloat(Strip(reply))
        capped == IF ~parsed.nan /\ parsed.v < 100 THEN parsed.v ELSE 100
    IN  IF parsed.ok THEN Max(0, capped) ELSE DefaultConfidence

EvaluateConfidenceNode(s, reply) ==
    [s EXCEPT !.local_confidence = ConfidenceScore(reply)]

\* mutant: a score equal to the threshold counts as low
RouteBasedOnConfidence_Strict(s) ==
    IF s.local_confidence > ConfidenceThreshold THEN "skip_pubmed" ELSE "search_pubmed"

\* _route_based_on_confidence
RouteBasedOnConfidence(s) ==
    IF s.local_confidence >= ConfidenceThreshold THEN "skip_pubmed" ELSE "search_pubmed"

\* _synthesize_information: top 3 of each list under its heading
SynthesizeInformation(s) ==
    [s EXCEPT !.context = <<"PubMed Research:">> \o Take(s.pubmed_results, TopN)
                          \o <<"Local Documents:">> \o Take(s.local_rag_results, TopN)]

\* _generate_response
GenerateResponseNode(s, answer) == [s EXCEPT !.response = answer]

\* _evaluate_helpfulness: "Y" in reply.strip().upper()
NormalizeHelpfulness(reply) == IF "Y" \in Range(Upper(Strip(reply))) THEN "Y" ELSE "N"

EvaluateHelpfulnessNode(s, reply) ==
    [s EXCEPT !.helpfulness_score = NormalizeHelpfulness(reply)]

\* mutant: the attempt limit is looked at before the verdict
RouteBasedOnHelpfulness_LimitFirst(s) ==
    IF s.attempt_count >= s.max_attempts THEN "max_attempts_reached"
    ELSE IF s.helpfulness_score = "Y" THEN "end"
    ELSE "refine"

\* mutant: the attempt limit is compared with > instead of >=
RouteBasedOnHelpfulness_OffByOne(s) ==
    IF s.helpfulness_score = "Y" THEN "end"
    ELSE IF s.attempt_count > s.max_attempts THEN "max_attempts_reached"
    ELSE "refine"

\* _route_based_on_helpfulness
RouteBasedOnHelpfulness(s) ==
    IF s.helpfulness_score = "Y" THEN "end"
    ELSE IF s.attempt_count >= s.max_attempts THEN "max_attempts_reached"
    ELSE "refine"

\* _refine_response, lines 748-775: what the refine prompt is filled with
RefinePrompt(s) == [original_query |-> s.query, previous_response |-> s.response]

\* _refine_response
RefineMessage(attempt, max_attempts, refined_query) ==
    <<"Refining query (attempt ", NumStr(attempt), "/", NumStr(max_attempts), "): ">>
        \o refined_query

\* mutant: a refinement counts as two attempts
RefineResponseNode_DoubleIncrement(s, reply) ==
    [s EXCEPT !.query = Strip(reply),
              !.attempt_count = s.attempt_count + 2,
              !.messages = Append(s.messages,
                  RefineMessage(s.attempt_count + 2, s.max_attempts, Strip(reply)))]

RefineResponseNode(s, reply) ==
    LET refined_query == Strip(reply)
    IN  [s EXCEPT !.query = refined_query,
                  !.attempt_count = s.attempt_count + 1,
                  !.messages = Append(s.messages,
                      RefineMessage(s.attempt_count + 1, s.max_attempts, refined_query))]

\* _finalize_response: the note after max attempts
LimitationNote(attempt_count) ==
    <<"Note: I've made ", NumStr(attempt_count), " attempts">>

\* mutant: the note is added only past the limit
FinalizeResponseNode_PastLimit(s) ==
    IF s.helpfulness_score = "N" /\ s.attempt_count > s.max_attempts
    THEN [s EXCEPT !.response = <<"\n">> \o s.response \o LimitationNote(s.attempt_count)]
    ELSE s

FinalizeResponseNode(s) ==
    IF s.helpfulness_score = "N" /\ s.attempt_count >= s.max_attempts
    THEN [s EXCEPT !.response = <<"\n">> \o s.response \o LimitationNote(s.attempt_count)]
    ELSE s

\* query(), lines 847-871: the dict returned from the final state
Apology == <<"I apologize, but I couldn't generate a response at this time.">>

AttemptsInfo(attempt_count) ==
    IF attempt_count > 1
    THEN <<"(Response refined ", NumStr(attempt_count - 1), " times for helpfulness)">>
    ELSE << >>

ResponseContent(final_state) ==
    IF final_state.response # << >> THEN final_state.response
    ELSE IF final_state.messages # << >>
         THEN final_state.messages[Len(final_state.messages)]
    ELSE Apology

BuildResult(final_state) ==
    [ response |-> ResponseContent(final_state) \o AttemptsInfo(final_state.attempt_count),
      pubmed_sources |-> final_state.pubmed_results,
      local_sources |-> final_state.local_rag_results,
      context_used |-> final_state.context,
      helpfulness_score |-> final_state.helpfulness_score,
      attempts |-> final_state.attempt_count ]

\* query(), lines 873-882: the dict returned when the graph raised
ErrorResult ==
    [ response |-> <<"I encountered an error while processing your query">>,
      pubmed_sources |-> << >>,
      local_sources |-> << >>,
      context_used |-> << >> ]

NoResult == [ response |-> << >> ]

\* what the model remembers of a run, besides its AgentState. agent is the
\* agent object the run works on: << >> is the service's current instance
\* (its cache is the variable cache), <<c>> an instance the service has
\* dropped, with cache c
NoHistory ==
    [ called |-> {}, cyclePubmed |-> 0, refines |-> 0,
      cycles |-> 0, why |-> "", verdicts |-> << >>, lastAnswer |-> << >>,
      original |-> << >>, entryAtCall |-> << >>, agent |-> << >> ]

\* self._cache of the agent object run r works on
AgentCache(r) == IF hist[r].agent = << >> THEN cache ELSE hist[r].agent[1]

\* --------------------------------------------------- the agent's transitions
Goto(r, node) == pc' = [pc EXCEPT ![r] = node]

\* a call of query(user_query, thread_id, max_attempts)
StartRun(r, user_query, arg) ==
    /\ r \in active
    /\ pc[r] \in {"idle", "done"}
    /\ st' = [st EXCEPT ![r] = InitialState(user_query, EffectiveMaxAttempts(arg))]
    /\ hist' = [hist EXCEPT ![r] =
          [NoHistory EXCEPT !.original = user_query,
                            !.entryAtCall =
                                IF Sha256(user_query) \in DOMAIN cache
                                THEN <<cache[Sha256(user_query)]>> ELSE << >>]]
    /\ result' = [result EXCEPT ![r] = NoResult]
    /\ Goto(r, "check_cache")
    /\ UNCHANGED <<cache, active, inputs>>

Query(r) ==
    /\ \E user_query \in inputs.queries, arg \in inputs.args :
          StartRun(r, user_query, arg)
    /\ UNCHANGED <<divVars, ev>>

\* node check_cache and its conditional edge
CheckCache(r) ==
    /\ r \in active
    /\ pc[r] = "check_cache"
    /\ LET s == CheckCacheNode(st[r], AgentCache(r))
       IN  /\ st' = [st EXCEPT ![r] = s]
           /\ IF RouteCacheDecision(s) = "cache_hit"
              THEN /\ Goto(r, "finalize_response")
                   /\ hist' = [hist EXCEPT ![r].why = "cache_hit"]
              ELSE /\ Goto(r, "analyze_query")
                   /\ UNCHANGED hist
    /\ UNCHANGED <<cache, active, inputs, result, divVars, ev>>

\* node analyze_query: one language-model call, then search_local
AnalyzeQuery(r) ==
    /\ r \in active
    /\ pc[r] = "analyze_query"
    /\ \E reply \in inputs.intents :
          st' = [st EXCEPT ![r] = AnalyzeQueryNode(st[r], reply)]
    /\ hist' = [hist EXCEPT ![r].called = @ \cup {"llm"}, ![r].cycles = @ + 1,
                            ![r].cyclePubmed = 0]
    /\ Goto(r, "search_local")
    /\ UNCHANGED <<cache, active, inputs, result, divVars, ev>>

\* node search_local: search_local_documents never raises (lines 265-268)
SearchLocal(r) ==
    /\ r \in active
    /\ pc[r] = "search_local"
    /\ \E results \in inputs.local :
          st' = [st EXCEPT ![r] = SearchLocalNode(st[r], results)]
    /\ hist' = [hist EXCEPT ![r].called = @ \cup {"local"}]
    /\ Goto(r, "evaluate_confidence")
    /\ UNCHANGED <<cache, active, inputs, result, divVars, ev>>

\* node evaluate_confidence and its conditional edge
EvaluateConfidence(r) ==
    /\ r \in active
    /\ pc[r] = "evaluate_confidence"
    /\ \E reply \in inputs.confidences :
          LET s == EvaluateConfidenceNode(st[r], reply)
          IN  /\ st' = [st EXCEPT ![r] = s]
              /\ IF RouteBasedOnConfidence(s) = "skip_pubmed"
                 THEN Goto(r, "synthesize_information")
                 ELSE Goto(r, "search_pubmed")
    /\ hist' = [hist EXCEPT ![r].called = @ \cup {"llm"}]
    /\ UNCHANGED <<cache, active, inputs, result, divVars, ev>>

\* node search_pubmed: search_pubmed never raises (lines 184-186)
SearchPubmed(r) ==
    /\ r \in active
    /\ pc[r] = "search_pubmed"
    /\ \E results \in inputs.pubmed :
          st' = [st EXCEPT ![r] = SearchPubmedNode(st[r], results)]
    /\ hist' = [hist EXCEPT ![r].called = @ \cup {"pubmed"}, ![r].cyclePubmed = @ + 1]
    /\ Goto(r, "synthesize_information")
    /\ UNCHANGED <<cache, active, inputs, result, divVars, ev>>

\* node synthesize_information
Synthesize(r) ==
    /\ r \in active
    /\ pc[r] = "synthesize_information"
    /\ st' = [st EXCEPT ![r] = SynthesizeInformation(st[r])]
    /\ Goto(r, "generate_response")
    /\ UNCHANGED <<cache, active, inputs, hist, result, divVars, ev>>

\* node generate_response: one language-model call
GenerateResponse(r) ==
    /\ r \in active
    /\ pc[r] = "generate_response"
    /\ \E answer \in inputs.answers :
          /\ st' = [st EXCEPT ![r] = GenerateResponseNode(st[r], answer)]
          /\ hist' = [hist EXCEPT ![r].called = @ \cup {"llm"}, ![r].lastAnswer = answer]
    /\ Goto(r, "evaluate_helpfulness")
    /\ UNCHANGED <<cache, active, inputs, result, divVars, ev>>

\* node evaluate_helpfulness and its conditional edge
EvaluateHelpfulness(r) ==
    /\ r \in active
    /\ pc[r] = "evaluate_helpfulness"
    /\ \E reply \in inputs.verdicts :
          LET s == EvaluateHelpfulnessNode(st[r], reply)
              route == RouteBasedOnHelpfulness(s)
          IN  /\ st' = [st EXCEPT ![r] = s]
              /\ hist' = [hist EXCEPT
                    ![r].called = @ \cup {"llm"},
                    ![r].verdicts = Append(@, s.helpfulness_score),
                    ![r].why = CASE route = "end" -> "helpful"
                                 [] route = "max_attempts_reached" -> "max_attempts"
                                 [] OTHER -> @]
              /\ IF route = "refine"
                 THEN Goto(r, "refine_response")
                 ELSE Goto(r, "cache_response")
    /\ UNCHANGED <<cache, active, inputs, result, divVars, ev>>

\* node refine_response: one language-model call, then back to analyze_query
RefineResponse(r) ==
    /\ r \in active
    /\ pc[r] = "refine_response"
    /\ \E reply \in inputs.refinements :
          st' = [st EXCEPT ![r] = RefineResponseNode(st[r], reply)]
    /\ hist' = [hist EXCEPT ![r].called = @ \cup {"llm"}, ![r].refines = @ + 1]
    /\ Goto(r, "analyze_query")
    /\ UNCHANGED <<cache, active, inputs, result, divVars, ev>>

\* node cache_response
CacheResponse(r) ==
    /\ r \in active
    /\ pc[r] = "cache_response"
    /\ LET written == CachePut(AgentCache(r), CacheKeyForWrite(st[r]), CacheData(st[r]))
       IN  IF hist[r].agent = << >>
           THEN cache' = written /\ UNCHANGED hist
           ELSE hist' = [hist EXCEPT ![r].agent = <<written>>] /\ UNCHANGED cache
    /\ Goto(r, "finalize_response")
    /\ UNCHANGED <<active, inputs, st, result, divVars, ev>>

\* node finalize_response, END, and the return of query()
FinalizeResponse(r) ==
    /\ r \in active
    /\ pc[r] = "finalize_response"
    /\ LET s == FinalizeResponseNode(st[r])
       IN  /\ st' = [st EXCEPT ![r] = s]
           /\ result' = [result EXCEPT ![r] = BuildResult(s)]
    /\ Goto(r, "done")
    /\ UNCHANGED <<cache, active, inputs, hist, divVars, ev>>

\* a language-model call raises inside a node that does not catch it:
\* graph.invoke raises and query() returns the error dict (lines 873-882)
LlmNodes ==
    {"analyze_query", "evaluate_confidence", "generate_response",
     "evaluate_helpfulness", "refine_response"}

LlmRaises(r) ==
    /\ r \in active
    /\ pc[r] \in LlmNodes
    /\ hist' = [hist EXCEPT ![r].called = @ \cup {"llm"}, ![r].why = "error"]
    /\ result' = [result EXCEPT ![r] = ErrorResult]
    /\ Goto(r, "done")
    /\ UNCHANGED <<cache, active, inputs, st, divVars, ev>>

Step(r) ==
    \/ CheckCache(r)
    \/ AnalyzeQuery(r)
    \/ SearchLocal(r)
    \/ EvaluateConfidence(r)
    \/ SearchPubmed(r)
    \/ Synthesize(r)
    \/ GenerateResponse(r)
    \/ EvaluateHelpfulness(r)
    \/ RefineResponse(r)
    \/ CacheResponse(r)
    \/ FinalizeResponse(r)

AgentInit ==
    /\ cache = [k \in {} |-> 0]
    /\ pc = [r \in Runs |-> "idle"]
    /\ st = [r \in Runs |-> InitialState(<< >>, DefaultMaxAttempts)]
    /\ hist = [r \in Runs |-> NoHistory]
    /\ result = [r \in Runs |-> NoResult]

GenOff == [endpoint |-> "", at |-> "off", chunks |-> 0]

\* HelpfulEvaluatorAgent.query, lines 257-265: the EvaluatorAgentState a run
\* starts from. pc is the node about to run; calls counts the invocations of
\* self.pubmed_agent.query and verdicts keeps the scores, for the properties
EvaluatorInitialState(user_query, max_attempts) ==
    [ pc |-> "process_query",
      query |-> user_query,
      pubmed_response |-> << >>,
      helpfulness_score |-> "",
      attempt_count |-> 0,
      max_attempts |-> max_attempts,
      final_response |-> << >>,
      calls |-> 0,
      verdicts |-> << >>,
      result |-> << >> ]

\* no evaluator in the system
EvOff == [EvaluatorInitialState(<< >>, DefaultMaxAttempts) EXCEPT !.pc = "off"]

DivIdle ==
    /\ search_results = << >>
    /\ dpc = "off"
    /\ outcome = ""
    /\ sources = << >>
    /\ gen = GenOff
    /\ ev = EvOff
    /\ stream = << >>

\* what the callers pass and what the collaborators may answer
AllInputs ==
    [ queries |-> Queries, args |-> MaxAttemptsArgs,
      intents |-> IntentReplies, confidences |-> ConfidenceReplies,
      local |-> LocalResults, pubmed |-> PubmedResults, answers |-> Answers,
      verdicts |-> HelpfulnessReplies, refinements |-> RefineReplies ]

\* one caller at a time
Init ==
    /\ AgentInit
    /\ active = {1}
    /\ inputs = AllInputs
    /\ DivIdle

Next ==
    \E r \in Runs :
        \/ Query(r)
        \/ Step(r)
        \/ LlmRaises(r)

Spec == Init /\ [][Next]_vars

\* one caller who repeats one question; every collaborator call of a run
\* returns or raises, so a started run keeps going
LiveInit ==
    /\ AgentInit
    /\ active = {1}
    /\ inputs = [AllInputs EXCEPT !.queries = {<<"q1">>}]
    /\ DivIdle

LiveSpec ==
    /\ LiveInit
    /\ [][Next]_vars
    /\ \A r \in Runs : WF_vars(Step(r) \/ LlmRaises(r))

\* one caller, and collaborators whose confidence reply and whose verdict
\* reply are the same text every time
ReplyInit ==
    /\ AgentInit
    /\ active = {1}
    /\ \E c \in ConfidenceReplies, v \in HelpfulnessReplies :
          inputs = [AllInputs EXCEPT !.queries = {<<"q1">>},
                                     !.confidences = {c}, !.verdicts = {v}]
    /\ DivIdle

ReplySpec == ReplyInit /\ [][Next]_vars

\* a question is asked once, and asked again by a second caller after the
\* first caller has its answer
RepeatInit ==
    /\ AgentInit
    /\ active = Runs
    /\ inputs = [AllInputs EXCEPT !.queries = {<<"q1">>},
                                 !.intents = {<<"banana">>},
                                 !.confidences = {<<" ", "0.7">>, <<"high">>},
                                 !.local = {<<"L1">>}, !.pubmed = {<<"P1">>},
                                 !.verdicts = {<<"Y">>, <<"N">>},
                                 !.refinements = {<<" ", "r1">>}]
    /\ DivIdle

RepeatNext ==
    \/ pc[1] = "idle" /\ Query(1)
    \/ Step(1)
    \/ LlmRaises(1)
    \/ pc[1] = "done" /\ pc[2] = "idle" /\ Query(2)
    \/ Step(2)
    \/ LlmRaises(2)

RepeatSpec == RepeatInit /\ [][RepeatNext]_vars

\* POST /agents/reset-conversation: _agent_instance = None. The next get_agent
\* builds a new PubMedCrossFitAgent, whose cache is empty; a run in flight
\* keeps the object it was started on.
ResetConversation ==
    /\ cache' = [k \in {} |-> 0]
    /\ hist' = [r \in Runs |->
                  IF pc[r] \notin {"idle", "done"} /\ hist[r].agent = << >>
                  THEN [hist[r] EXCEPT !.agent = <<cache>>]
                  ELSE hist[r]]
    /\ UNCHANGED <<active, inputs, pc, st, result, divVars, ev>>

\* the agent behind its endpoints: one caller who repeats one question, and
\* reset-conversation requests at any time
SvcInit ==
    /\ AgentInit
    /\ active = {1}
    /\ inputs = [AllInputs EXCEPT !.queries = {<<"q1">>}]
    /\ DivIdle

SvcNext == Next \/ ResetConversation

SvcSpec == SvcInit /\ [][SvcNext]_vars

\* two requests served at once: query_agent runs agent.query in a worker
\* thread (asyncio.to_thread), so two runs of the one agent interleave node
\* by node; both callers ask the same question
ConcInit ==
    /\ AgentInit
    /\ active = Runs
    /\ inputs = [ queries |-> {<<"q1">>}, args |-> {<<2>>},
                  intents |-> {<<"banana">>},
                  confidences |-> {<<" ", "0.7">>, <<"high">>},
                  local |-> {<<"L1">>}, pubmed |-> {<<"P1">>},
                  answers |-> Answers,
                  verdicts |-> {<<"Y">>, <<"N">>},
                  refinements |-> {<<"q1">>} ]
    /\ DivIdle

ConcSpec == ConcInit /\ [][Next]_vars

\* ------------------------------------------------- the rag endpoints' sources
\* What the vector store holds. A text is a sequence of blocks of 100
\* characters; chunk i of a document starts with block "h<i>", and the rest
\* of a text differs from document to document.
DocNames == <<"A.pdf", "B.pdf", "C.pdf", "D.pdf">>
HeadBlocks == <<"h1", "h2", "h3">>
Scores == {40, 80}

ScoredPoints ==
    [doc : 1..Len(DocNames), chunk : 1..Len(HeadBlocks), score : Scores]

\* asimilarity_search, lines 277-306: one scored point as a result dict
SearchResultOf(point) ==
    [ text |-> <<HeadBlocks[point.chunk], DocNames[point.doc]>>,
      metadata |-> [source |-> <<DocNames[point.doc]>>],
      source |-> <<DocNames[point.doc], " (Section", NumStr(point.chunk), ")">>,
      score |-> point.score ]

\* mutant: the sort is not stable, entries of equal score swap
RECURSIVE InsertByScore_Unstable(_, _)
InsertByScore_Unstable(sorted, x) ==
    IF sorted = << >> THEN <<x>>
    ELSE IF Head(sorted).score > x.score
         THEN <<Head(sorted)>> \o InsertByScore_Unstable(Tail(sorted), x)
    ELSE <<x>> \o sorted

\* sorted(..., key=score, reverse=True) and list.sort(key=score, reverse=True):
\* stable, entries of equal score keep their order
RECURSIVE InsertByScore(_, _)
InsertByScore(sorted, x) ==
    IF sorted = << >> THEN <<x>>
    ELSE IF Head(sorted).score >= x.score
         THEN <<Head(sorted)>> \o InsertByScore(Tail(sorted), x)
    ELSE <<x>> \o sorted

RECURSIVE SortByScoreDesc(_)
SortByScoreDesc(s) ==
    IF s = << >> THEN << >>
    ELSE InsertByScore(SortByScoreDesc(SubSeq(s, 1, Len(s) - 1)), s[Len(s)])

\* rag_query, lines 381-399: the source items built from the sorted results
QuerySourceItem(res) == [text |-> res.text, source |-> res.source, score |-> res.score]

\* rag_stream, lines 503-518: the source is the metadata's source
StreamSourceItem(res) ==
    [text |-> res.text, source |-> res.metadata.source, score |-> res.score]

\* source['source'].split(' (Section')[0] if ' (Section' in source['source']
RECURSIVE BeforeSection(_)
BeforeSection(name) ==
    IF name = << >> \/ Head(name) = " (Section" THEN << >>
    ELSE <<Head(name)>> \o BeforeSection(Tail(name))

SourceName(source) ==
    IF " (Section" \in Range(source.source) THEN BeforeSection(source.source)
    ELSE source.source

\* source['text'][:100]
TextFingerprint(source) == SubSeq(source.text, 1, Min(1, Len(source.text)))

\* lines 407-414: source_groups, a dict in insertion order
RECURSIVE GroupKeys(_, _)
GroupKeys(srcs, keys) ==
    IF srcs = << >> THEN keys
    ELSE GroupKeys(Tail(srcs),
                   IF SourceName(Head(srcs)) \in Range(keys) THEN keys
                   ELSE Append(keys, SourceName(Head(srcs))))

GroupMembers(srcs, key) == SelectSeq(srcs, LAMBDA x : SourceName(x) = key)

\* lines 421-423: each group sorted by score, in place
SourceGroups(srcs) ==
    LET keys == GroupKeys(srcs, << >>)
    IN  [i \in 1..Len(keys) |-> SortByScoreDesc(GroupMembers(srcs, keys[i]))]

\* mutant: the last source of each group is taken
RECURSIVE AddBest_Last(_, _)
AddBest_Last(groups, acc) ==
    IF groups = << >> THEN acc
    ELSE LET best_source == Head(groups)[Len(Head(groups))]
         IN  AddBest_Last(Tail(groups),
                     [final_sources |-> Append(acc.final_sources, best_source),
                      seen_texts |-> acc.seen_texts \cup {TextFingerprint(best_source)}])

\* mutant: every source of each group is taken
RECURSIVE AddBest_WholeGroup(_, _)
AddBest_WholeGroup(groups, acc) ==
    IF groups = << >> THEN acc
    ELSE AddBest_WholeGroup(Tail(groups),
            [final_sources |-> acc.final_sources \o Head(groups),
             seen_texts |-> acc.seen_texts
                            \cup {TextFingerprint(Head(groups)[i]) : i \in 1..Len(Head(groups))}])

\* lines 420-429: the highest scoring source of each group
RECURSIVE AddBest(_, _)
AddBest(groups, acc) ==
    IF groups = << >> THEN acc
    ELSE LET best_source == Head(groups)[1]
         IN  AddBest(Tail(groups),
                     [final_sources |-> Append(acc.final_sources, best_source),
                      seen_texts |-> acc.seen_texts \cup {TextFingerprint(best_source)}])

\* mutant: the inner loop does not stop at three sources
RECURSIVE ScanGroup_NoLimit(_, _)
ScanGroup_NoLimit(group_sources, acc) ==
    IF group_sources = << >> THEN acc
    ELSE LET source == Head(group_sources)
         IN  ScanGroup_NoLimit(Tail(group_sources),
                IF TextFingerprint(source) \notin acc.seen_texts
                THEN [final_sources |-> Append(acc.final_sources, source),
                      seen_texts |-> acc.seen_texts \cup {TextFingerprint(source)}]
                ELSE acc)

\* lines 440-447: the inner loop over one group
RECURSIVE ScanGroup(_, _)
ScanGroup(group_sources, acc) ==
    IF group_sources = << >> \/ Len(acc.final_sources) >= TargetSources THEN acc
    ELSE LET source == Head(group_sources)
         IN  ScanGroup(Tail(group_sources),
                IF TextFingerprint(source) \notin acc.seen_texts
                THEN [final_sources |-> Append(acc.final_sources, source),
                      seen_texts |-> acc.seen_texts \cup {TextFingerprint(source)}]
                ELSE acc)

\* lines 433-447: the outer loop over the groups
RECURSIVE Backfill(_, _)
Backfill(groups, acc) ==
    IF groups = << >> \/ Len(acc.final_sources) >= TargetSources THEN acc
    ELSE Backfill(Tail(groups), ScanGroup(Head(groups), acc))

\* lines 405-453 of rag_query, lines 528-576 of rag_stream
OnePerGroup(srcs) ==
    AddBest(SourceGroups(srcs), [final_sources |-> << >>, seen_texts |-> {}])

\* mutant: the final sort is left out
SelectSources_Unsorted(srcs) ==
    LET first == OnePerGroup(srcs)
        filled == IF Len(first.final_sources) < TargetSources
                  THEN Backfill(SourceGroups(srcs), first)
                  ELSE first
    IN  filled.final_sources

SelectSources(srcs) ==
    LET first == OnePerGroup(srcs)
        filled == IF Len(first.final_sources) < TargetSources
                  THEN Backfill(SourceGroups(srcs), first)
                  ELSE first
    IN  SortByScoreDesc(filled.final_sources)

RECURSIVE SumScores(_)
SumScores(s) == IF s = << >> THEN 0 ELSE Head(s).score + SumScores(Tail(s))

\* rag_query, lines 359-364
RelevancePercentage(results) ==
    IF results = << >> THEN 0 ELSE SumScores(results) \div Len(results)

MapSeq(s, F(_)) == [i \in 1..Len(s) |-> F(s[i])]

\* the documents and chunks the results name so far
DocsIn(results) == {results[i].metadata.source : i \in 1..Len(results)}
HeadsIn(results) == {results[i].text[1] : i \in 1..Len(results)}

\* asimilarity_search yields one more result, at most k = 5. Documents and chunks are
\* introduced in the order of DocNames and HeadBlocks: a list that names them
\* in another order is a renaming of one that is produced.
VectorSearchYields(point) ==
    /\ dpc = "search"
    /\ Len(search_results) < TopK
    /\ point.doc <= Cardinality(DocsIn(search_results)) + 1
    /\ point.chunk <= Cardinality(HeadsIn(search_results)) + 1
    /\ search_results' = Append(search_results, SearchResultOf(point))
    /\ UNCHANGED <<agentVars, ev, dpc, outcome, sources, gen, stream>>

\* POST /api/rag-query up to the selection of the sources
RagQuery ==
    /\ dpc = "search"
    /\ dpc' = "rag_query"
    /\ IF search_results = << >>
       THEN outcome' = "no_results" /\ sources' = << >>
       ELSE IF RelevancePercentage(search_results) < RelevanceThreshold
       THEN outcome' = "low_relevance" /\ sources' = << >>
       ELSE /\ outcome' = "selected"
            /\ sources' = SelectSources(
                    MapSeq(SortByScoreDesc(search_results), QuerySourceItem))
    /\ UNCHANGED <<agentVars, ev, search_results, gen, stream>>

\* POST /api/rag-stream up to the selection of the sources and the return of
\* StreamingResponse(generate())
RagStream ==
    /\ dpc = "search"
    /\ dpc' = "rag_stream"
    /\ outcome' = "selected"
    /\ sources' = SelectSources(
            Take(SortByScoreDesc(MapSeq(search_results, StreamSourceItem)), TopK))
    /\ gen' = [endpoint |-> "rag_stream", at |-> "sources", chunks |-> 0]
    /\ UNCHANGED <<agentVars, ev, search_results, stream>>

DivInit ==
    /\ AgentInit
    /\ active = {}
    /\ inputs = AllInputs
    /\ search_results = << >>
    /\ dpc = "search"
    /\ outcome = ""
    /\ sources = << >>
    /\ gen = GenOff
    /\ ev = EvOff
    /\ stream = << >>

DivNext ==
    \/ \E point \in ScoredPoints : VectorSearchYields(point)
    \/ RagQuery
    \/ RagStream

SpecDiv == DivInit /\ [][DivNext]_vars

\* ------------------------------------------------------ the response streams
\* rag.py, lines 13-22: the fixed texts of astream_query
STREAM_COMPLETE_MARKER == "__STREAM_COMPLETE__"
NO_PDF_CONTENT_RESPONSE == "I don't have any relevant information from your uploaded PDFs"
LOW_RELEVANCE_RESPONSE == "I don't know (relevance: %)."
ERROR_RESPONSE == "I encountered an error while searching for relevant information."

\* what the chat model streams, and what the search inside astream_query
\* returns (the store may have changed since the endpoint's own search)
Chunks == {"c1", "c2"}
OneResult(score) == <<SearchResultOf([doc |-> 1, chunk |-> 1, score |-> score])>>
AstreamSearchResults == {<< >>, OneResult(20), OneResult(80)}

\* a message is the sequence of its pieces. rag_stream.generate wraps every
\* chunk as f"data: {chunk}\n\n", chat.generate passes it on as it is
Wrap(endpoint, chunk) ==
    IF endpoint = "rag_stream" THEN <<"data: ", chunk, "\n\n">> ELSE <<chunk>>

\* rag_stream.generate, lines 590-591
SourcesMessage == <<"data: ", "{\"sources\": ...}", "\n\n">>

RECURSIVE MaxScore(_)
MaxScore(results) ==
    IF Len(results) = 1 THEN results[1].score
    ELSE Max(results[1].score, MaxScore(Tail(results)))

\* POST /api/chat with use_rag: generate() goes straight to astream_query
ChatRag ==
    /\ dpc = "search"
    /\ dpc' = "chat"
    /\ gen' = [endpoint |-> "chat", at |-> "search", chunks |-> 0]
    /\ UNCHANGED <<agentVars, ev, search_results, outcome, sources, stream>>

\* rag_stream.generate: the sources go out first
EmitSources ==
    /\ gen.at = "sources"
    /\ stream' = Append(stream, SourcesMessage)
    /\ gen' = [gen EXCEPT !.at = "search"]
    /\ UNCHANGED <<agentVars, ev, search_results, dpc, outcome, sources>>

\* astream_query, lines 114-135: its own search and the early exits; each
\* yields one text and returns
AstreamSearch ==
    /\ gen.at = "search"
    /\ \/ /\ stream' = Append(stream, Wrap(gen.endpoint, ERROR_RESPONSE))
          /\ gen' = [gen EXCEPT !.at = "returned"]
       \/ \E results \in AstreamSearchResults :
             IF results = << >>
             THEN /\ stream' = Append(stream, Wrap(gen.endpoint, NO_PDF_CONTENT_RESPONSE))
                  /\ gen' = [gen EXCEPT !.at = "returned"]
             ELSE IF MaxScore(results) < MinRelevanceScore
             THEN /\ stream' = Append(stream, Wrap(gen.endpoint, LOW_RELEVANCE_RESPONSE))
                  /\ gen' = [gen EXCEPT !.at = "returned"]
             ELSE /\ gen' = [gen EXCEPT !.at = "answer"]
                  /\ UNCHANGED stream
    /\ UNCHANGED <<agentVars, ev, search_results, dpc, outcome, sources>>

\* astream_query, lines 155-156: one chunk of the chat model's answer
AnswerChunk ==
    /\ gen.at = "answer"
    /\ gen.chunks < MaxChunks
    /\ \E chunk \in Chunks : stream' = Append(stream, Wrap(gen.endpoint, chunk))
    /\ gen' = [gen EXCEPT !.chunks = @ + 1]
    /\ UNCHANGED <<agentVars, ev, search_results, dpc, outcome, sources>>

\* astream_query, line 159: the answer is complete, the marker is yielded
AnswerEnds ==
    /\ gen.at = "answer"
    /\ stream' = Append(stream, Wrap(gen.endpoint, STREAM_COMPLETE_MARKER))
    /\ gen' = [gen EXCEPT !.at = "returned"]
    /\ UNCHANGED <<agentVars, ev, search_results, dpc, outcome, sources>>

\* the chat model raises while streaming: astream_query does not catch it,
\* the except branch of generate() does (app.py 166-167, 601-604)
ModelRaises ==
    /\ gen.at = "answer"
    /\ stream' =
          IF gen.endpoint = "rag_stream"
          THEN stream \o <<<<"data: ", "Error: ", "\n\n">>,
                            <<"data: ", STREAM_COMPLETE_MARKER, "\n\n">>>>
          ELSE Append(stream, <<"Error: ", STREAM_COMPLETE_MARKER>>)
    /\ gen' = [gen EXCEPT !.at = "closed"]
    /\ UNCHANGED <<agentVars, ev, search_results, dpc, outcome, sources>>

\* generate(), app.py 163 and 600: astream_query is exhausted, the endpoint
\* adds its completion marker and the stream closes
EndpointMarker ==
    /\ gen.at = "returned"
    /\ stream' = Append(stream, Wrap(gen.endpoint, STREAM_COMPLETE_MARKER))
    /\ gen' = [gen EXCEPT !.at = "closed"]
    /\ UNCHANGED <<agentVars, ev, search_results, dpc, outcome, sources>>

StreamInit ==
    /\ AgentInit
    /\ active = {}
    /\ inputs = AllInputs
    /\ search_results \in {<< >>, OneResult(80)}
    /\ dpc = "search"
    /\ outcome = ""
    /\ sources = << >>
    /\ gen = GenOff
    /\ ev = EvOff
    /\ stream = << >>

StreamNext ==
    \/ RagStream
    \/ ChatRag
    \/ EmitSources
    \/ AstreamSearch
    \/ AnswerChunk
    \/ AnswerEnds
    \/ ModelRaises
    \/ EndpointMarker

StreamSpec == StreamInit /\ [][StreamNext]_vars

\* ------------------------------------------------- the HelpfulEvaluatorAgent
\* HelpfulEvaluatorAgent(max_attempts = ...): the argument is stored as it is
EvaluatorMaxAttemptsArgs == (0..(MaxM + 1)) \cup {DefaultMaxAttempts}

\* _evaluate_helpfulness: the same normalisation as the wrapped agent's
EvaluatorEvaluateHelpfulnessNode(s, reply) ==
    [s EXCEPT !.helpfulness_score =
        IF "Y" \in Range(Upper(Strip(reply))) THEN "Y" ELSE "N"]

\* mutant: the attempt limit is compared with > instead of >=
EvaluatorRoute_OffByOne(s) ==
    IF s.helpfulness_score = "Y" THEN "helpful"
    ELSE IF s.attempt_count > s.max_attempts THEN "max_attempts"
    ELSE "not_helpful"

\* _route_based_on_helpfulness
EvaluatorRoute(s) ==
    IF s.helpfulness_score = "Y" THEN "helpful"
    ELSE IF s.attempt_count >= s.max_attempts THEN "max_attempts"
    ELSE "not_helpful"

\* _build_graph: the conditional edges out of evaluate_helpfulness
EvaluatorEdge(route) ==
    CASE route = "helpful" -> "finalize_response"
      [] route = "not_helpful" -> "refine_response"
      [] route = "max_attempts" -> "finalize_response"

\* _finalize_response
EvaluatorFinalizeResponseNode(s) ==
    [s EXCEPT !.final_response =
        IF s.helpfulness_score = "Y" THEN s.pubmed_response
        ELSE <<"\n">> \o s.pubmed_response \o LimitationNote(s.attempt_count)]

\* query(), lines 274-279 and 283-288: the dict returned
EvaluatorResult(final_state) ==
    [ response |-> final_state.final_response,
      helpfulness_score |-> final_state.helpfulness_score,
      attempts |-> final_state.attempt_count ]

EvaluatorErrorResult ==
    [ response |-> <<"I encountered an error while processing your query">>,
      helpfulness_score |-> "N",
      attempts |-> 0 ]

\* query(): a new run of the graph, max_attempts from the constructor
EvaluatorQuery ==
    /\ ev.pc = "idle"
    /\ \E user_query \in inputs.queries :
          ev' = EvaluatorInitialState(user_query, ev.max_attempts)
    /\ UNCHANGED <<agentVars, divVars>>

\* node process_query: self.pubmed_agent.query(query) is called ...
ProcessQuery ==
    /\ ev.pc = "process_query"
    /\ StartRun(1, ev.query, << >>)
    /\ ev' = [ev EXCEPT !.pc = "process_query_returns", !.calls = @ + 1]
    /\ UNCHANGED divVars

\* ... and has returned: its response is kept, this was attempt 1
ProcessQueryReturns ==
    /\ ev.pc = "process_query_returns"
    /\ pc[1] = "done"
    /\ ev' = [ev EXCEPT !.pubmed_response = result[1].response,
                        !.attempt_count = 1,
                        !.pc = "evaluate_helpfulness"]
    /\ UNCHANGED <<agentVars, divVars>>

\* node evaluate_helpfulness and its conditional edge
EvaluatorEvaluateHelpfulness ==
    /\ ev.pc = "evaluate_helpfulness"
    /\ \E reply \in inputs.verdicts :
          LET s == EvaluatorEvaluateHelpfulnessNode(ev, reply)
          IN  ev' = [s EXCEPT !.verdicts = Append(@, s.helpfulness_score),
                             !.pc = EvaluatorEdge(EvaluatorRoute(s))]
    /\ UNCHANGED <<agentVars, divVars>>

\* node refine_response: the language model writes a refined query and
\* self.pubmed_agent.query(refined_query) is called ...
EvaluatorRefineResponse ==
    /\ ev.pc = "refine_response"
    /\ \E reply \in inputs.refinements : StartRun(1, Strip(reply), << >>)
    /\ ev' = [ev EXCEPT !.pc = "refine_response_returns", !.calls = @ + 1]
    /\ UNCHANGED divVars

\* ... and has returned: its response replaces the previous one
EvaluatorRefineResponseReturns ==
    /\ ev.pc = "refine_response_returns"
    /\ pc[1] = "done"
    /\ ev' = [ev EXCEPT !.pubmed_response = result[1].response,
                        !.attempt_count = @ + 1,
                        !.pc = "evaluate_helpfulness"]
    /\ UNCHANGED <<agentVars, divVars>>

\* node finalize_response, END, and the dict query() returns
EvaluatorFinalizeResponse ==
    /\ ev.pc = "finalize_response"
    /\ LET s == EvaluatorFinalizeResponseNode(ev)
       IN  ev' = [s EXCEPT !.result = <<EvaluatorResult(s)>>, !.pc = "done"]
    /\ UNCHANGED <<agentVars, divVars>>

\* a language-model call of the evaluator raises: query() catches it
EvaluatorLlmRaises ==
    /\ ev.pc \in {"evaluate_helpfulness", "refine_response"}
    /\ ev' = [ev EXCEPT !.result = <<EvaluatorErrorResult>>, !.pc = "failed"]
    /\ UNCHANGED <<agentVars, divVars>>

\* one evaluator, asked once; the wrapped agent answers each of its calls
\* with a run of its own graph
EvaluatorInit ==
    /\ AgentInit
    /\ active = {1}
    /\ inputs = [AllInputs EXCEPT !.queries = {<<"q1">>},
                                 !.args = {<< >>},
                                 !.intents = {<<"banana">>},
                                 !.confidences = {<<" ", "0.7">>, <<"high">>},
                                 !.local = {<<"L1">>}, !.pubmed = {<<"P1">>},
                                 !.answers = {<<"a1">>},
                                 !.verdicts = {<<"Y">>, <<"N">>},
                                 !.refinements = {<<" ", "r1">>}]
    /\ search_results = << >>
    /\ dpc = "off"
    /\ outcome = ""
    /\ sources = << >>
    /\ gen = GenOff
    /\ stream = << >>
    /\ \E max_attempts \in EvaluatorMaxAttemptsArgs :
          ev = [EvOff EXCEPT !.pc = "idle", !.max_attempts = max_attempts]

EvaluatorNext ==
    \/ EvaluatorQuery
    \/ ProcessQuery
    \/ ProcessQueryReturns
    \/ EvaluatorEvaluateHelpfulness
    \/ EvaluatorRefineResponse
    \/ EvaluatorRefineResponseReturns
    \/ EvaluatorFinalizeResponse
    \/ EvaluatorLlmRaises
    \/ Step(1)
    \/ LlmRaises(1)

EvaluatorSpec == EvaluatorInit /\ [][EvaluatorNext]_vars

\* ------------------------------------------------------------------ claims
Finalized(r) == pc[r] = "done" /\ hist[r].why \in {"helpful", "max_attempts"}
Aborted(r) == pc[r] = "done" /\ hist[r].why = "error"
InRun(r) == r \in active /\ pc[r] \notin {"idle", "done"}
AllNotHelpful(v) == \A i \in 1..Len(v) : v[i] = "N"
Contains(s, sub) ==
    \E i \in 0..(Len(s) - Len(sub)) : SubSeq(s, i + 1, i + Len(sub)) = sub

\* C1 as stated: throughout a run of query() the attempt counter starts at 1,
\* never decreases, changes only when refine_response adds 1, and never
\* exceeds the run's max_attempts.
C1_Original ==
    [][\A r \in active :
        /\ pc'[r] # "idle" => st'[r].attempt_count <= st'[r].max_attempts
        /\ InRun(r) => st'[r].attempt_count >= st[r].attempt_count]_vars

\* C1 amended: the counter starts at 1, never decreases within a run, changes
\* only when refine_response adds 1, and never exceeds max(1, max_attempts).
C1_AttemptCounter ==
    [][\A r \in active :
        /\ pc'[r] # "idle" =>
              /\ st'[r].attempt_count >= 1
              /\ st'[r].attempt_count <= Max(1, st'[r].max_attempts)
        /\ ~InRun(r) /\ InRun(r)' => st'[r].attempt_count = 1
        /\ InRun(r) =>
              /\ st'[r].attempt_count >= st[r].attempt_count
              /\ st'[r].attempt_count # st[r].attempt_count =>
                    /\ pc[r] = "refine_response"
                    /\ st'[r].attempt_count = st[r].attempt_count + 1]_vars

C1_Witness ==
    \E r \in active :
        /\ pc[r] = "analyze_query"
        /\ st[r].attempt_count = 3
        /\ st[r].attempt_count = st[r].max_attempts

C3_ThreeEndings ==
    \A r \in active :
        pc[r] = "done" =>
            \/ hist[r].why = "cache_hit" /\ st[r].cache_hit
            \/ hist[r].why = "helpful" /\ st[r].helpfulness_score = "Y"
            \/ /\ hist[r].why = "max_attempts"
               /\ st[r].helpfulness_score = "N"
               /\ st[r].attempt_count = st[r].max_attempts

\* C4 as stated: a call made while an entry exists under the query's
\* fingerprint returns that entry's answer and invokes no collaborator.
C4_Original ==
    \A r \in active :
        pc[r] = "done" /\ hist[r].entryAtCall # << >> =>
            /\ result[r].response = hist[r].entryAtCall[1].response
            /\ hist[r].called = {}

\* C4 amended: such a call returns the entry's answer, or the fixed apology
\* text when the entry's answer is empty, and invokes no collaborator.
C4_CacheHit ==
    \A r \in active :
        pc[r] = "done" /\ hist[r].entryAtCall # << >> =>
            /\ hist[r].why = "cache_hit"
            /\ result[r].response =
                  IF hist[r].entryAtCall[1].response # << >>
                  THEN hist[r].entryAtCall[1].response ELSE Apology
            /\ hist[r].called = {}

C4_Witness ==
    \E r \in active :
        /\ pc[r] = "done"
        /\ hist[r].entryAtCall # << >>
        /\ hist[r].entryAtCall[1].response = <<"a1">>
        /\ result[r].response = <<"a1">>

\* C5: in every analyze cycle, once the confidence route is taken, PubMed has
\* been searched no times in the cycle when the score is at or above 0.7 and
\* exactly once when it is below.
PastConfidenceRoute ==
    {"synthesize_information", "generate_response", "evaluate_helpfulness",
     "refine_response", "cache_response"}

C5_ConfidenceGate ==
    \A r \in active :
        /\ pc[r] \in PastConfidenceRoute =>
              hist[r].cyclePubmed =
                  IF st[r].local_confidence >= ConfidenceThreshold THEN 0 ELSE 1
        /\ pc[r] = "search_pubmed" =>
              st[r].local_confidence < ConfidenceThreshold /\ hist[r].cyclePubmed = 0

C5_Witness ==
    \E r \in active :
        /\ pc[r] = "generate_response"
        /\ hist[r].cycles = 2
        /\ st[r].local_confidence = ConfidenceThreshold
        /\ hist[r].cyclePubmed = 0
        /\ "pubmed" \in hist[r].called

\* C6: when the final analyze cycle of a run skipped the PubMed search, the
\* context the answer was generated from and the PubMed sources returned hold
\* no PubMed record.
C6_LocalOnly ==
    \A r \in active :
        Finalized(r) /\ st[r].local_confidence >= ConfidenceThreshold =>
            /\ result[r].pubmed_sources = << >>
            /\ Range(result[r].context_used) \cap Range(<<"P1">>) = {}

DocOfText(x) == <<x.text[2]>>
CandidateDocs == DocsIn(search_results)
CandidatesOf(doc) ==
    {i \in 1..Len(search_results) : search_results[i].metadata.source = doc}
BestScore(doc) ==
    CHOOSE v \in Scores :
        /\ \E i \in CandidatesOf(doc) : search_results[i].score = v
        /\ \A i \in CandidatesOf(doc) : search_results[i].score <= v

\* C9 as stated: the selection returns at most 3 sources.
C9_Original == outcome = "selected" => Len(sources) <= TargetSources

\* C9 amended: the selection returns at most max(3, number of document groups
\* among the candidates) sources.
C9_SizeBound ==
    outcome = "selected" =>
        Len(sources) <= Max(TargetSources, Cardinality(CandidateDocs))

C9_Witness ==
    /\ outcome = "selected"
    /\ Len(search_results) = 4
    /\ Cardinality(CandidateDocs) = 1
    /\ Cardinality(HeadsIn(search_results)) = 3
    /\ Len(sources) = TargetSources

\* C10: the selection holds, for every document group among the candidates,
\* a member of that group with the group's highest score.
C10_BestOfEachGroup ==
    outcome = "selected" =>
        \A doc \in CandidateDocs :
            \E i \in 1..Len(sources) :
                /\ DocOfText(sources[i]) = doc
                /\ sources[i].score = BestScore(doc)

C10_Witness ==
    /\ outcome = "selected"
    /\ Cardinality(CandidateDocs) = 2
    /\ Len(search_results) = 4
    /\ search_results[1].metadata.source = search_results[2].metadata.source
    /\ search_results[1].score < search_results[2].score

\* the candidates in the order the selection reads them: by score, ties in
\* the order the search returned them
Ranked == SortByScoreDesc(search_results)
GroupsInOutput == {SourceName(sources[i]) : i \in 1..Len(sources)}

\* C11: the selection holds two entries of one document group only when the
\* one-per-group phase gave fewer than 3 entries, that is when the candidates
\* span fewer than 3 document groups.
C11_DuplicatesOnlyByBackfill ==
    outcome = "selected" =>
        ((\E i, j \in 1..Len(sources) :
              i # j /\ SourceName(sources[i]) = SourceName(sources[j]))
         => /\ Cardinality(CandidateDocs) < 3
            /\ Cardinality(GroupsInOutput) < 3)

C11_Witness ==
    /\ outcome = "selected"
    /\ Cardinality(CandidateDocs) = 2
    /\ Len(sources) = 3
    /\ \E i, j \in 1..Len(sources) :
          i # j /\ SourceName(sources[i]) = SourceName(sources[j])

\* C12: the selection is ordered by score, highest first.
C12_SortedByScore ==
    outcome = "selected" =>
        \A i, j \in 1..Len(sources) : i < j => sources[i].score >= sources[j].score

C12_Witness ==
    /\ outcome = "selected"
    /\ Len(sources) = 3
    /\ SourceName(sources[1]) = SourceName(sources[2])
    /\ SourceName(sources[3]) # SourceName(sources[1])
    /\ sources[2].score > sources[3].score

\* C13: selecting from a selection changes nothing, the order of entries of
\* equal score included, when there were at least 3 candidates.
C13_Idempotent ==
    outcome = "selected" /\ Len(search_results) >= TargetSources =>
        SelectSources(sources) = sources

C13_Witness ==
    /\ outcome = "selected"
    /\ Len(search_results) = 5
    /\ Len(sources) = 3
    /\ Cardinality(CandidateDocs) = 2
    /\ sources[1].score = sources[3].score
    /\ SelectSources(sources) = sources

\* the first candidate of a document group in reading order (its top scorer),
\* and the groups in the order the selection meets them
TopIndex(doc) ==
    CHOOSE i \in 1..Len(Ranked) :
        /\ Ranked[i].metadata.source = doc
        /\ \A j \in 1..(i - 1) : Ranked[j].metadata.source # doc
TopTexts == {Ranked[TopIndex(doc)].text : doc \in CandidateDocs}
TopHeads == {t[1] : t \in TopTexts}
HasUnseenHead(doc) ==
    \E i \in CandidatesOf(doc) : search_results[i].text[1] \notin TopHeads
FirstGroupWithUnseen ==
    CHOOSE doc \in CandidateDocs :
        /\ HasUnseenHead(doc)
        /\ \A other \in CandidateDocs \ {doc} :
              HasUnseenHead(other) => TopIndex(doc) < TopIndex(other)
ExtraEntries == {i \in 1..Len(sources) : sources[i].text \notin TopTexts}
ScenarioD ==
    /\ outcome = "selected"
    /\ Cardinality(CandidateDocs) = 2
    /\ Cardinality(HeadsIn(search_results)) >= 3

\* C14 as stated: two document groups and at least 3 distinct fingerprints
\* give exactly 3 sources: each group's top scorer and one more entry, which
\* comes from the larger group.
C14_Original ==
    ScenarioD =>
        /\ Len(sources) = 3
        /\ \A doc \in CandidateDocs : \E i \in 1..3 : sources[i].text = Ranked[TopIndex(doc)].text
        /\ \A i \in ExtraEntries :
              \A other \in CandidateDocs :
                  Cardinality(CandidatesOf(DocOfText(sources[i])))
                      >= Cardinality(CandidatesOf(other))

\* C14 amended: they give exactly 3 sources: each group's top scorer and one
\* more entry, whose fingerprint differs from the top scorers' and which
\* comes from the first group, in reading order, that holds such an entry.
C14_ScenarioD ==
    ScenarioD =>
        /\ Len(sources) = 3
        /\ \A doc \in CandidateDocs : \E i \in 1..3 : sources[i].text = Ranked[TopIndex(doc)].text
        /\ Cardinality(ExtraEntries) = 1
        /\ \A i \in ExtraEntries :
              /\ sources[i].text[1] \notin TopHeads
              /\ DocOfText(sources[i]) = FirstGroupWithUnseen

C14_Witness ==
    /\ ScenarioD
    /\ Len(search_results) = 5
    /\ \E i \in ExtraEntries :
          \E other \in CandidateDocs :
              Cardinality(CandidatesOf(DocOfText(sources[i])))
                  < Cardinality(CandidatesOf(other))

ResultKeys ==
    {"response", "pubmed_sources", "local_sources", "helpfulness_score", "attempts"}

\* C15: whatever the collaborators do, query() returns a dict that carries an
\* answer, the sources, the helpfulness verdict and the attempt count.
C15_FullResult ==
    \A r \in active : pc[r] = "done" => ResultKeys \subseteq DOMAIN result[r]

\* C16: a cache-miss run in which a collaborator raised goes on with a neutral
\* default and ends by caching and finalizing: no run is aborted, and every
\* cache-miss run that ended left an entry under its cache key.
C16_NeutralDefaults ==
    \A r \in active :
        pc[r] = "done" /\ ~st[r].cache_hit =>
            /\ ~Aborted(r)
            /\ st[r].cache_key \in DOMAIN cache

\* C17: a run writes its cache entry under the fingerprint of the caller's
\* original query, however often the query was refined, and a call that finds
\* an entry under the fingerprint of its query is a cache hit.
C17_KeyedByOriginal ==
    [][\A r \in active :
          /\ pc[r] = "cache_response" /\ pc'[r] # "cache_response" =>
                /\ DOMAIN cache' = DOMAIN cache \cup {Sha256(hist[r].original)}
                /\ cache'[Sha256(hist[r].original)] = CacheData(st[r])
          /\ pc[r] = "check_cache" /\ pc'[r] # "check_cache"
                /\ Sha256(hist[r].original) \in DOMAIN cache =>
                /\ pc'[r] = "finalize_response"
                /\ st'[r].cache_hit]_vars

C17_Witness ==
    \E r \in active :
        /\ Finalized(r)
        /\ hist[r].original = <<"q1">>
        /\ hist[r].refines = 2
        /\ st[r].query = <<"r1">>
        /\ DOMAIN cache = {Sha256(<<"q1">>)}

\* C20: only the cache_response step of a run that missed the cache and was
\* judged (helpful, or out of attempts) changes the cache; a run that hits
\* the cache or is aborted leaves it as it was.
C20_WrittenOnlyAtCacheResponse ==
    [][cache' # cache =>
          \E r \in active :
              /\ pc[r] = "cache_response" /\ pc'[r] = "finalize_response"
              /\ ~st[r].cache_hit
              /\ hist[r].why \in {"helpful", "max_attempts"}]_vars

C20_Witness ==
    \E r \in active :
        /\ Aborted(r)
        /\ hist[r].original = <<"q1">>
        /\ hist[r].refines = 1
        /\ DOMAIN cache = {Sha256(<<"q2">>)}

\* C18: once an entry exists under a fingerprint no step changes it, also
\* when two runs for the same new query both miss the cache.
C18_EntriesNeverUpdated ==
    [][\A k \in DOMAIN cache : k \in DOMAIN cache' /\ cache'[k] = cache[k]]_vars

\* C19: no request the service answers removes an entry from the cache that
\* later requests are served from.
C19_NeverInvalidated ==
    [][\A k \in DOMAIN cache : k \in DOMAIN cache']_vars

Intents ==
    {<<"workout_adaptation">>, <<"education">>, <<"general_advice">>,
     <<"research_question">>}

\* C24: once analyze_query has run, the intent of the run is one of the four
\* categories, and a classification that fails does not end the run.
C24_IntentInSet ==
    \A r \in active :
        hist[r].cycles >= 1 =>
            /\ st[r].next_action \in Intents
            /\ ~(Aborted(r) /\ hist[r].called = {"llm"} /\ hist[r].cycles = 1)

\* C25: every refinement fills the refine prompt with the caller's original
\* query and the latest answer that was judged not helpful.
C25_RefineUsesOriginal ==
    [][\A r \in active :
          pc[r] = "refine_response" /\ pc'[r] = "analyze_query" =>
              /\ RefinePrompt(st[r]).original_query = hist[r].original
              /\ RefinePrompt(st[r]).previous_response = hist[r].lastAnswer]_vars

\* C26: after evaluate_helpfulness the run goes to cache_response as helpful
\* whenever the verdict is Y, whatever the attempt count; to cache_response
\* as out of attempts when the verdict is not Y and attempt_count >=
\* max_attempts; and to refine_response in every other case.
C26_RouterPriority ==
    [][\A r \in active :
          pc[r] = "evaluate_helpfulness" /\ pc'[r] \in {"cache_response", "refine_response"} =>
              LET s == st'[r]
              IN  IF s.helpfulness_score = "Y"
                  THEN pc'[r] = "cache_response" /\ hist'[r].why = "helpful"
                  ELSE IF s.attempt_count >= s.max_attempts
                  THEN pc'[r] = "cache_response" /\ hist'[r].why = "max_attempts"
                  ELSE pc'[r] = "refine_response" /\ hist'[r].why = ""]_vars

C26_Witness ==
    \E r \in active :
        /\ pc[r] = "cache_response"
        /\ hist[r].why = "helpful"
        /\ st[r].helpfulness_score = "Y"
        /\ hist[r].verdicts = <<"N", "N", "Y">>
        /\ st[r].attempt_count >= st[r].max_attempts

\* a reply that is positive beyond doubt: the token Y, or yes, in any case
\* and with blanks around it
UnambiguouslyPositive(reply) == Upper(Strip(reply)) \in {<<"Y">>, <<"Y", "E", "S">>}

\* C21: the verdict of an attempt is helpful only when the evaluator's reply
\* is unambiguously positive; any other reply gives not helpful.
C21_VerdictParse ==
    \A r \in active :
        \A i \in 1..Len(hist[r].verdicts) :
            \A reply \in inputs.verdicts :
                hist[r].verdicts[i] = "Y" => UnambiguouslyPositive(reply)

\* C22: a confidence reply that does not parse as a number gives the score
\* 0.3, below the threshold, and PubMed is searched in that cycle; a reply
\* that parses gives a score in [0, 1], the parsed number when it lies there.
C22_ConfidenceParse ==
    \A r \in active :
        pc[r] \in PastConfidenceRoute =>
            \A reply \in inputs.confidences :
                LET parsed == ParseFloat(Strip(reply))
                    score == st[r].local_confidence
                IN  IF ~parsed.ok
                    THEN /\ score = 30
                         /\ score < ConfidenceThreshold
                         /\ hist[r].cyclePubmed = 1
                    ELSE /\ score >= 0 /\ score <= 100
                         /\ ~parsed.nan /\ parsed.v \in 0..100 => score = parsed.v
                         /\ ~parsed.nan /\ parsed.v > 100 => score = 100
                         /\ ~parsed.nan /\ parsed.v < 0 => score = 0

C22_Witness ==
    \E r \in active :
        /\ pc[r] = "generate_response"
        /\ inputs.confidences = {<<"high">>}
        /\ st[r].local_confidence = 30
        /\ hist[r].cyclePubmed = 1
        /\ hist[r].cycles = 2

\* C29: the answer a cache-hit call returns is the answer that was returned
\* to the caller of the run that wrote the entry (here run 1, the only run
\* before the hit).
C29_HitEqualsWriter ==
    pc[2] = "done" /\ hist[2].why = "cache_hit" /\ Finalized(1) =>
        result[2].response = result[1].response

\* C30: no two sources of a selection have the same text fingerprint, be
\* they of one document group or of two.
C30_DistinctFingerprints ==
    outcome = "selected" =>
        \A i, j \in 1..Len(sources) :
            i # j => TextFingerprint(sources[i]) # TextFingerprint(sources[j])

\* how often the marker was sent, and the messages that hold it
MarkerPlaces ==
    {<<i, j>> \in (1..Len(stream)) \X (1..3) :
        j <= Len(stream[i]) /\ stream[i][j] = STREAM_COMPLETE_MARKER}
HoldsMarker(message) == STREAM_COMPLETE_MARKER \in Range(message)

\* C23: a closed stream of /api/rag-stream starts with the one sources
\* message and ends with the marker; no message follows a marker.
C23_StreamOrder ==
    gen.endpoint = "rag_stream" /\ gen.at = "closed" =>
        /\ stream[1] = SourcesMessage
        /\ \A i \in 2..Len(stream) : stream[i] # SourcesMessage
        /\ HoldsMarker(stream[Len(stream)])
        /\ \A i \in 1..(Len(stream) - 1) : ~HoldsMarker(stream[i])

\* C28: a closed stream of /api/rag-stream or of /api/chat with use_rag holds
\* the marker exactly once, on every path.
C28_MarkerOnce ==
    gen.at = "closed" => Cardinality(MarkerPlaces) = 1

\* C27 as stated: a run of HelpfulEvaluatorAgent.query that completes
\* without error has invoked the wrapped agent exactly `attempts` times,
\* attempts is between 1 and max_attempts, and it is 1 when the first
\* verdict is helpful.
C27_Original ==
    ev.pc = "done" =>
        /\ ev.calls = ev.result[1].attempts
        /\ ev.result[1].attempts \in 1..ev.max_attempts
        /\ (ev.verdicts[1] = "Y" => ev.result[1].attempts = 1)

\* C27, amended: the same, with attempts between 1 and max(1, max_attempts):
\* the first invocation is made whatever max_attempts is.
C27_AttemptsCountInvocations ==
    ev.pc = "done" =>
        /\ ev.calls = ev.result[1].attempts
        /\ ev.result[1].attempts \in 1..Max(1, ev.max_attempts)
        /\ (ev.verdicts[1] = "Y" => ev.result[1].attempts = 1)

C27_Witness ==
    /\ ev.pc = "done"
    /\ ev.max_attempts = DefaultMaxAttempts
    /\ ev.verdicts = <<"N", "N", "N">>
    /\ ev.calls = 3
    /\ ev.result[1].attempts = 3

====
